---------------------------- MODULE Spec2Model ----------------------------
(***************************************************************************)
(* Model of the sqs-arch Service (src/index.js, lines 1-408): a worker     *)
(* that registers use-case rules, polls one SQS queue on a timer, routes   *)
(* every received message to the first rule whose validation matches,      *)
(* and reports and deletes the message when the rule's callback completes. *)
(*                                                                         *)
(* JavaScript runs each callback to completion, so every action below is   *)
(* one whole callback: a public method call, one waterfall stage, one      *)
(* timer tick, one receiveMessage response, one completion of a handler,   *)
(* or one answer of a collaborator (audit store, queue transport).         *)
(***************************************************************************)
EXTENDS Integers, Sequences, FiniteSets, TLC

(***************************************************************************)
(* Bounds of the model.                                                    *)
(***************************************************************************)
MaxMsgs == 2
MaxStarts == 2

(* MaxNumberOfMessages asked of receiveMessage on every tick. *)
MaxNumberOfMessages == 10

Msgs == 1..MaxMsgs

Min(a, b) == IF a < b THEN a ELSE b

(***************************************************************************)
(* JavaScript values, as far as the matcher looks at them.  A value is a   *)
(* record: t is its runtime kind, s its text when it is a string, own the  *)
(* set of <<property, kind of the property's value>> of an object.         *)
(* "datestring" is a string value that Date can parse.                     *)
(***************************************************************************)
Str(text) == [t |-> "string", s |-> text, own |-> {}]

Obj(props) == [t |-> "object", s |-> "", own |-> props]

Prim(kind) == [t |-> kind, s |-> "", own |-> {}]

SyntaxError == Prim("SyntaxError")

(* The message bodies the transport delivers in this model: JSON texts,   *)
(* one text that is no JSON, and one already structured body.             *)
Bodies ==
  { Str("{\"Name\":\"Stephen\"}"),
    Str("{\"Age\":5}"),
    Str("{\"Name\":null}"),
    Str("{\"Name\":\"2015-06-01\"}"),
    Str("5"),
    Str("null"),
    Str("not json"),
    Obj({<<"Name", "date">>}) }

(* JSON.parse on the texts above; any other text is a syntax error. *)
JSONparse(text) ==
  CASE text = "{\"Name\":\"Stephen\"}"    -> Obj({<<"Name", "string">>})
    [] text = "{\"Age\":5}"               -> Obj({<<"Age", "number">>})
    [] text = "{\"Name\":null}"           -> Obj({<<"Name", "null">>})
    [] text = "{\"Name\":\"2015-06-01\"}" -> Obj({<<"Name", "datestring">>})
    [] text = "5"                         -> Prim("number")
    [] text = "null"                      -> Prim("null")
    [] OTHER                              -> SyntaxError

(* typeof v === 'object' *)
TypeofObject(v) == v.t \in {"object", "array", "date", "null"}

(* typeof of a property value's kind *)
TypeofString(kind) == kind \in {"string", "datestring"}

(* v.hasOwnProperty(prop): null has no methods (TypeError). *)
HasOwnProperty(v, prop) ==
  IF v.t = "null" THEN "TypeError"
  ELSE IF \E p \in v.own : p[1] = prop THEN "true" ELSE "false"

(* kind of v[prop] for an own property *)
PropKind(v, prop) == (CHOOSE p \in v.own : p[1] = prop)[2]

(* x.constructor of a value of the given kind: null has none (TypeError). *)
Constructor(kind) ==
  CASE kind \in {"string", "datestring"} -> "String"
    [] kind = "array"   -> "Array"
    [] kind = "object"  -> "Object"
    [] kind = "number"  -> "Number"
    [] kind = "boolean" -> "Boolean"
    [] kind = "date"    -> "Date"
    [] OTHER            -> "TypeError"


(***************************************************************************)
(* Arguments of process(useCase, validation, callback).                    *)
(* A validation is [t, props]: t its typeof class, props the sequence of   *)
(* <<property, declared constructor>> in for..in order.  "Function" stands *)
(* for any constructor the switch does not list.  A callback is named by   *)
(* what it does with the completion function it is given.                  *)
(***************************************************************************)
Schema(props) == [t |-> "object", props |-> props]

Validations ==
  { Schema(<<>>),
    Schema(<< <<"Name", "String">> >>),
    Schema(<< <<"Age", "Number">> >>),
    Schema(<< <<"Name", "Array">> >>),
    Schema(<< <<"Name", "Date">> >>),
    Schema(<< <<"Name", "Function">> >>),
    [t |-> "null", props |-> <<>>],
    [t |-> "string", props |-> <<>>] }

UseCases == {"case1", "", "undefined"}

(* syncOk / syncErr call the completion function before returning, async  *)
(* calls it later (any number of times), throws raises instead, and       *)
(* notFunction is an argument that is no function.                        *)
Callbacks == {"syncOk", "syncErr", "async", "throws", "notFunction"}

(* A registered hook: null (none registered), fn (returns), throws. *)
Hooks == {"fn", "throws"}

VARIABLES
  meta,             \* self.meta: the identity fields that are set
  configLoaded,     \* self.configLoaded
  processes,        \* self.processes: the rule closures, in registration order,
                    \* each with the useCase self.meta.processes keeps for it
  registeredDone,   \* self.registeredDone
  registeredError,  \* self.registeredError
  interval,         \* self.interval: 0 is null, else the timer handle
  Record,           \* self.Record is set
  QueueUrl,         \* self.options.QueueUrl is set
  setups,           \* per start() call: the stage its waterfall is in
  timers,           \* the timers setInterval created and nobody cleared
  stopped,          \* stop() has been called since the last start()
  stoppedIdle,      \* stop() has cancelled the polling with no setup running
  thrown,           \* what the last public method call threw to its caller
  msgBody,          \* the body of every message sent to the queue
  queue,            \* the messages the transport holds
  fetchCalls,       \* calls of sqs.receiveMessage
  fetchPending,     \* receiveMessage calls not yet answered
  lastTick,         \* the last receiveMessage answer: what it was, how many rules
                    \* it met, and what its callback did, in order
  errTicks,         \* receiveMessage answers that were errors
  envelope,         \* Body of the message object last delivered, per message
  dispatched,       \* per message: dispatch attempts begun
  schemaEvals,      \* per message: rule closures that reached the schema loop
  handlerCalls,     \* per message: calls of a rule's callback
  doneCalls,        \* per message: calls of the completion function
  hookCalls,        \* per message: calls of the done hook and of the error hook
  creates,          \* per message: Record.create calls, by reportStatus
  pendingWrites,    \* per message: Record.create promises not yet settled
  records,          \* per message: audit rows written, by reportStatus
  deleteCalls,      \* per message: calls of sqs.deleteMessage
  pendingDeletes,   \* per message: deleteMessage calls not yet answered
  inflight,         \* per message: async callbacks given a completion function
  lastCompletion    \* what the last run of a completion function by an async
                    \* callback did, in order

vars ==
  << meta, configLoaded, processes, registeredDone, registeredError, interval,
     Record, QueueUrl, setups, timers, stopped, stoppedIdle, thrown,
     msgBody, queue, fetchCalls, fetchPending, lastTick, errTicks, envelope,
     dispatched, schemaEvals, handlerCalls, doneCalls, hookCalls, creates,
     pendingWrites, records, deleteCalls, pendingDeletes, inflight,
     lastCompletion >>

svcVars ==
  << meta, configLoaded, processes, registeredDone, registeredError, interval,
     Record, QueueUrl, setups, timers, stopped, stoppedIdle >>

queueVars == << msgBody, queue >>

tickVars == << fetchCalls, fetchPending, lastTick, errTicks >>

fxVars ==
  << envelope, dispatched, schemaEvals, handlerCalls, doneCalls, hookCalls,
     creates, pendingWrites, records, deleteCalls, pendingDeletes, inflight,
     lastCompletion >>

Unsent == Prim("unsent")

Zero == [m \in Msgs |-> 0]

ByStatus(a, b) == [success |-> a, error |-> b]

ByHook(a, b) == [done |-> a, error |-> b]

NoTick == [kind |-> "none", batch |-> <<>>, rules |-> 0, trace |-> <<>>]

(* new Service(sqs), lines 11-27; nothing has been sent to the queue. *)
Init ==
  /\ meta = {}
  /\ configLoaded = FALSE
  /\ processes = <<>>
  /\ registeredDone = "null"
  /\ registeredError = "null"
  /\ interval = 0
  /\ Record = FALSE
  /\ QueueUrl = FALSE
  /\ setups = [n \in 1..MaxStarts |-> "idle"]
  /\ timers = {}
  /\ stopped = FALSE
  /\ stoppedIdle = FALSE
  /\ thrown = "none"
  /\ msgBody = [m \in Msgs |-> Unsent]
  /\ queue = {}
  /\ fetchCalls = 0
  /\ fetchPending = 0
  /\ lastTick = NoTick
  /\ errTicks = 0
  /\ envelope = [m \in Msgs |-> Unsent]
  /\ dispatched = Zero
  /\ schemaEvals = Zero
  /\ handlerCalls = Zero
  /\ doneCalls = Zero
  /\ hookCalls = [m \in Msgs |-> ByHook(0, 0)]
  /\ creates = [m \in Msgs |-> ByStatus(0, 0)]
  /\ pendingWrites = [m \in Msgs |-> ByStatus(0, 0)]
  /\ records = [m \in Msgs |-> ByStatus(0, 0)]
  /\ deleteCalls = Zero
  /\ pendingDeletes = Zero
  /\ inflight = Zero
  /\ lastCompletion = <<>>

(***************************************************************************)
(* Chain methods.                                                          *)
(***************************************************************************)
(* self.name / self.description / self.version *)
SetMeta(field) ==
  /\ field \notin meta
  /\ meta' = meta \cup {field}
  /\ thrown' = "none"
  /\ UNCHANGED << configLoaded, processes, registeredDone, registeredError,
                  interval, Record, QueueUrl, setups, timers,
                  stopped, stoppedIdle >>
  /\ UNCHANGED << queueVars, tickVars, fxVars >>

(* The parameter check of self.process: which message it throws, if any. *)
ProcessArgsError(useCase, validation, callback) ==
  IF useCase = "undefined" THEN "use case"
  ELSE IF validation.t \notin {"object", "null"} THEN "validation"
  ELSE IF callback = "notFunction" THEN "callback"
  ELSE "none"

(* Process with a check the code only plans (the TODO of line 122): a use  *)
(* case that is already registered is not registered again.                *)
ProcessOncePerUseCase(useCase, validation, callback) ==
  LET err == ProcessArgsError(useCase, validation, callback) IN
  /\ thrown' = err
  /\ processes' =
       IF err = "none" /\ \A i \in DOMAIN processes : processes[i].useCase # useCase
       THEN Append(processes, [useCase |-> useCase, validation |-> validation,
                               logic |-> callback])
       ELSE processes
  /\ UNCHANGED << meta, configLoaded, registeredDone, registeredError,
                  interval, Record, QueueUrl, setups, timers,
                  stopped, stoppedIdle >>
  /\ UNCHANGED << queueVars, tickVars, fxVars >>

(* self.process(useCase, validation, callback) *)
Process(useCase, validation, callback) ==
  LET err == ProcessArgsError(useCase, validation, callback) IN
  /\ thrown' = err
  /\ processes' =
       IF err = "none"
       THEN Append(processes, [useCase |-> useCase, validation |-> validation,
                               logic |-> callback])
       ELSE processes
  /\ UNCHANGED << meta, configLoaded, registeredDone, registeredError,
                  interval, Record, QueueUrl, setups, timers,
                  stopped, stoppedIdle >>
  /\ UNCHANGED << queueVars, tickVars, fxVars >>

(* self.done(callback) *)
Done(callback) ==
  /\ registeredDone # callback
  /\ registeredDone' = callback
  /\ thrown' = "none"
  /\ UNCHANGED << meta, configLoaded, processes, registeredError, interval,
                  Record, QueueUrl, setups, timers, stopped,
                  stoppedIdle >>
  /\ UNCHANGED << queueVars, tickVars, fxVars >>

(* self.error(callback) *)
Error(callback) ==
  /\ registeredError # callback
  /\ registeredError' = callback
  /\ thrown' = "none"
  /\ UNCHANGED << meta, configLoaded, processes, registeredDone, interval,
                  Record, QueueUrl, setups, timers, stopped,
                  stoppedIdle >>
  /\ UNCHANGED << queueVars, tickVars, fxVars >>


(***************************************************************************)
(* One run of a callback.  Its effects are threaded through a record f of  *)
(* the variables it may change, with the trace of what it did; f.exc says  *)
(* that the run has thrown, and the trace then ends with a throw event.    *)
(***************************************************************************)
Ev(e, m, i) == [e |-> e, m |-> m, i |-> i]

Fx ==
  [ envelope |-> envelope, dispatched |-> dispatched,
    schemaEvals |-> schemaEvals, handlerCalls |-> handlerCalls,
    doneCalls |-> doneCalls, hookCalls |-> hookCalls, creates |-> creates,
    pendingWrites |-> pendingWrites, deleteCalls |-> deleteCalls,
    pendingDeletes |-> pendingDeletes, inflight |-> inflight,
    trace |-> <<>>, exc |-> FALSE, ret |-> "false" ]

Commit(f) ==
  /\ envelope' = f.envelope
  /\ dispatched' = f.dispatched
  /\ schemaEvals' = f.schemaEvals
  /\ handlerCalls' = f.handlerCalls
  /\ doneCalls' = f.doneCalls
  /\ hookCalls' = f.hookCalls
  /\ creates' = f.creates
  /\ pendingWrites' = f.pendingWrites
  /\ deleteCalls' = f.deleteCalls
  /\ pendingDeletes' = f.pendingDeletes
  /\ inflight' = f.inflight

Log(f, e, m, i) == [f EXCEPT !.trace = Append(@, Ev(e, m, i))]

Throw(f, m) == [Log(f, "throw", m, 0) EXCEPT !.exc = TRUE, !.ret = "throw"]

(* CheckProp with the else branch of line 173 lost: a property the body    *)
(* lacks is passed over.                                                   *)
CheckPropMissingOk(body, prop, ctor) ==
  LET has == HasOwnProperty(body, prop) IN
  IF has = "TypeError" THEN "throw"
  ELSE IF has = "false" THEN "ok"
  ELSE LET kind == PropKind(body, prop) IN
    CASE ctor = "String" -> IF TypeofString(kind) THEN "ok" ELSE "false"
      [] ctor \in {"Array", "Object", "Number", "Boolean", "Date"} ->
           IF Constructor(kind) = "TypeError" THEN "throw"
           ELSE IF Constructor(kind) # ctor THEN "false" ELSE "ok"
      [] OTHER -> "throw"

(* CheckProp with the String case of lines 141-143 lost: a property the    *)
(* body has passes for String whatever its value is.                       *)
CheckPropAnyString(body, prop, ctor) ==
  LET has == HasOwnProperty(body, prop) IN
  IF has = "TypeError" THEN "throw"
  ELSE IF has = "false" THEN "false"
  ELSE LET kind == PropKind(body, prop) IN
    CASE ctor = "String" -> "ok"
      [] ctor \in {"Array", "Object", "Number", "Boolean", "Date"} ->
           IF Constructor(kind) = "TypeError" THEN "throw"
           ELSE IF Constructor(kind) # ctor THEN "false" ELSE "ok"
      [] OTHER -> "throw"

(* One property of the validation against the decoded body, lines 138-175: *)
(* "ok" (break), "false" (return false) or "throw".                        *)
CheckProp(body, prop, ctor) ==
  LET has == HasOwnProperty(body, prop) IN
  IF has = "TypeError" THEN "throw"
  ELSE IF has = "false" THEN "false"
  ELSE LET kind == PropKind(body, prop) IN
    CASE ctor = "String" -> IF TypeofString(kind) THEN "ok" ELSE "false"
      [] ctor \in {"Array", "Object", "Number", "Boolean", "Date"} ->
           IF Constructor(kind) = "TypeError" THEN "throw"
           ELSE IF Constructor(kind) # ctor THEN "false" ELSE "ok"
      [] OTHER -> "throw"

(* for (var prop in validation), lines 137-176, from the i-th property on. *)
RECURSIVE SchemaLoop(_, _, _)
SchemaLoop(props, body, i) ==
  IF i > Len(props) THEN "match"
  ELSE LET r == CheckProp(body, props[i][1], props[i][2]) IN
    IF r = "ok" THEN SchemaLoop(props, body, i + 1) ELSE r

(* self.report(err, output, message), lines 204-220. *)
Report(f, err, m) ==
  LET status == IF err THEN "error" ELSE "success" IN
  IF f.envelope[m].t = "null" \/ ~Record
  THEN Throw(f, m)
  ELSE Log([f EXCEPT !.creates[m][status] = @ + 1,
                     !.pendingWrites[m][status] = @ + 1],
           IF err THEN "createError" ELSE "createSuccess", m, 0)

(* RemoveMessage issuing its deleteMessage call twice. *)
RemoveMessageTwice(f, m) ==
  Log([f EXCEPT !.deleteCalls[m] = @ + 2, !.pendingDeletes[m] = @ + 2],
      "delete", m, 0)

(* self.removeMessage(message), lines 247-259. *)
RemoveMessage(f, m) ==
  Log([f EXCEPT !.deleteCalls[m] = @ + 1, !.pendingDeletes[m] = @ + 1],
      "delete", m, 0)

(* CallHook with a guard the code does not have: a hook that is null is    *)
(* passed over.                                                            *)
CallHookIfSet(f, hook, which, m) ==
  IF hook = "null" THEN f
  ELSE LET g == Log([f EXCEPT !.hookCalls[m][which] = @ + 1],
                    IF which = "done" THEN "doneHook" ELSE "errorHook", m, 0)
       IN IF hook = "throws" THEN Throw(g, m) ELSE g

(* Calling a registered hook: null is not callable. *)
CallHook(f, hook, which, m) ==
  IF hook = "null" THEN Throw(f, m)
  ELSE LET g == Log([f EXCEPT !.hookCalls[m][which] = @ + 1],
                    IF which = "done" THEN "doneHook" ELSE "errorHook", m, 0)
       IN IF hook = "throws" THEN Throw(g, m) ELSE g

(* The completion function handed to the callback, lines 178-191. *)
Completion(f, err, m) ==
  LET f0 == Log([f EXCEPT !.doneCalls[m] = @ + 1],
                IF err THEN "completeErr" ELSE "completeOk", m, 0)
      f1 == IF err THEN CallHook(f0, registeredError, "error", m)
                   ELSE CallHook(f0, registeredDone, "done", m)
      f2 == IF f1.exc THEN f1 ELSE Report(f1, err, m)
  IN IF f2.exc THEN f2 ELSE RemoveMessage(f2, m)

(* message.Body = JSON.parse(message.Body), lines 130-136: JSON.parse      *)
(* turns its argument into a string first.                                 *)
Decode(body) ==
  IF TypeofObject(body) THEN body
  ELSE IF body.t = "string" THEN JSONparse(body.s)
  ELSE body

(* The closure self.process pushes, lines 128-193, as rule i for message m. *)
RuleClosure(f, rule, m, i) ==
  LET decoded == Decode(f.envelope[m]) IN
  IF decoded = SyntaxError THEN [f EXCEPT !.ret = "false"]
  ELSE
    LET f0 == [f EXCEPT !.envelope[m] = decoded, !.schemaEvals[m] = @ + 1]
        r == SchemaLoop(rule.validation.props, decoded, 1)
    IN
    IF r = "false" THEN [f0 EXCEPT !.ret = "false"]
    ELSE IF r = "throw" THEN Throw(f0, m)
    ELSE
      LET f1 == Log([f0 EXCEPT !.handlerCalls[m] = @ + 1], "handler", m, i) IN
      CASE rule.logic = "throws" -> Throw(f1, m)
        [] rule.logic = "async" ->
             [f1 EXCEPT !.inflight[m] = @ + 1, !.ret = "true"]
        [] OTHER ->
             LET f2 == Completion(f1, rule.logic = "syncErr", m) IN
             IF f2.exc THEN f2 ELSE [f2 EXCEPT !.ret = "true"]

(* for (var i = 0; i < self.processes.length; i++), lines 392-396. *)
RECURSIVE RuleLoop(_, _, _)
RuleLoop(f, m, i) ==
  IF i > Len(processes) THEN f
  ELSE LET r == RuleClosure(f, processes[i], m, i) IN
    IF r.ret = "false" THEN RuleLoop(r, m, i + 1) ELSE r

(* for (var j = 0; j < data.Messages.length; j++), lines 390-397. *)
RECURSIVE MessageLoop(_, _, _)
MessageLoop(f, batch, j) ==
  IF j > Len(batch) THEN f
  ELSE
    LET m == batch[j]
        f0 == Log([f EXCEPT !.envelope[m] = msgBody[m],
                            !.dispatched[m] = @ + 1], "dispatch", m, 0)
        f1 == RuleLoop(f0, m, 1)
    IN IF f1.exc THEN f1 ELSE MessageLoop(f1, batch, j + 1)

(***************************************************************************)
(* start(), its waterfall, stop() and the polling timer.                   *)
(***************************************************************************)
Identity == {"name", "description", "version"}

Starts == Cardinality({n \in 1..MaxStarts : setups[n] # "idle"})

Running(n) == setups[n] \in {"meta", "record", "queue"}

(* Start with the check of lines 312-314 lost: the waterfall begins        *)
(* whatever the identity is.                                               *)
StartNoIdentityCheck ==
  /\ Starts < MaxStarts
  /\ configLoaded' = TRUE
  /\ setups' = [setups EXCEPT ![Starts + 1] = "meta"]
  /\ stopped' = FALSE
  /\ thrown' = "none"
  /\ UNCHANGED << meta, processes, registeredDone, registeredError, interval,
                  Record, QueueUrl, timers, stoppedIdle >>
  /\ UNCHANGED << queueVars, tickVars, fxVars >>

(* self.start, lines 303-316: the synchronous part. *)
Start ==
  /\ Starts < MaxStarts
  /\ configLoaded' = TRUE
  /\ IF Identity \subseteq meta
     THEN /\ setups' = [setups EXCEPT ![Starts + 1] = "meta"]
          /\ stopped' = FALSE
          /\ thrown' = "none"
     ELSE /\ thrown' = "identity"
          /\ UNCHANGED << setups, stopped >>
  /\ UNCHANGED << meta, processes, registeredDone, registeredError, interval,
                  Record, QueueUrl, timers, stoppedIdle >>
  /\ UNCHANGED << queueVars, tickVars, fxVars >>

(* SetupStep with the test of line 372 lost: the final callback starts the *)
(* timer when the waterfall ended in an error too.                         *)
SetupStepTimerAnyway(n, outcome) ==
  /\ Running(n)
  /\ outcome = "hang" => setups[n] = "meta"
  /\ setups' = [setups EXCEPT ![n] =
        IF outcome = "hang" THEN "hung"
        ELSE IF outcome # "ok" THEN "failed"
        ELSE CASE setups[n] = "meta"   -> "record"
               [] setups[n] = "record" -> "queue"
               [] OTHER                -> "finished"]
  /\ Record' = (Record \/ (outcome = "ok" /\ setups[n] = "meta"))
  /\ IF outcome = "err" \/ (outcome = "ok" /\ setups[n] = "queue")
     THEN /\ QueueUrl' = (QueueUrl \/ outcome = "ok")
          /\ interval' = n
          /\ timers' = timers \cup {n}
     ELSE UNCHANGED << QueueUrl, interval, timers >>
  /\ UNCHANGED << meta, configLoaded, processes, registeredDone,
                  registeredError, stopped, stoppedIdle, thrown >>
  /\ UNCHANGED << queueVars, tickVars, fxVars >>

(* The stage n's waterfall is in answers, lines 318-403.  Meta.sync() has  *)
(* no catch: when it rejects ("hang") the waterfall never goes on and      *)
(* nothing is logged ("hung").  The second task sets self.Record as it     *)
(* begins; the final callback sets the queue URL and starts the timer, or  *)
(* logs the error ("failed").                                              *)
SetupStep(n, outcome) ==
  /\ Running(n)
  /\ outcome = "hang" => setups[n] = "meta"
  /\ setups' = [setups EXCEPT ![n] =
        IF outcome = "hang" THEN "hung"
        ELSE IF outcome # "ok" THEN "failed"
        ELSE CASE setups[n] = "meta"   -> "record"
               [] setups[n] = "record" -> "queue"
               [] OTHER                -> "finished"]
  /\ Record' = (Record \/ (outcome = "ok" /\ setups[n] = "meta"))
  /\ IF outcome = "ok" /\ setups[n] = "queue"
     THEN /\ QueueUrl' = TRUE
          /\ interval' = n
          /\ timers' = timers \cup {n}
     ELSE UNCHANGED << QueueUrl, interval, timers >>
  /\ UNCHANGED << meta, configLoaded, processes, registeredDone,
                  registeredError, stopped, stoppedIdle, thrown >>
  /\ UNCHANGED << queueVars, tickVars, fxVars >>

(* self.stop, lines 275-280. *)
Stop ==
  /\ timers' = IF interval # 0 THEN timers \ {interval} ELSE timers
  /\ stopped' = (Starts > 0)
  /\ stoppedIdle' =
       (stoppedIdle \/ (interval \in timers /\ timers' = {}
                        /\ \A n \in 1..MaxStarts : ~Running(n)))
  /\ thrown' = "none"
  /\ UNCHANGED << meta, configLoaded, processes, registeredDone,
                  registeredError, interval, Record, QueueUrl, setups >>
  /\ UNCHANGED << queueVars, tickVars, fxVars >>

(* The function given to setInterval, lines 380-384: one tick of timer t. *)
Tick(t) ==
  /\ t \in timers
  /\ fetchCalls' = fetchCalls + 1
  /\ fetchPending' = fetchPending + 1
  /\ UNCHANGED << lastTick, errTicks, thrown >>
  /\ UNCHANGED << svcVars, queueVars, fxVars >>

(* The answers receiveMessage may give: up to MaxNumberOfMessages distinct *)
(* messages of the queue, in any order.                                    *)
Batches(q) ==
  { b \in UNION { [1..n -> q] : n \in 1..Min(MaxNumberOfMessages, Cardinality(q)) } :
      \A i, j \in DOMAIN b : i # j => b[i] # b[j] }

(* ReceiveCallback with the else of line 388 lost: the messages that come  *)
(* with an error are dispatched all the same.                              *)
ReceiveCallbackNoElse(err, batch) ==
  /\ fetchPending > 0
  /\ fetchPending' = fetchPending - 1
  /\ LET f == MessageLoop(Fx, batch, 1) IN
       /\ lastTick' = [kind |-> IF err THEN "err"
                                ELSE IF batch = <<>> THEN "empty" ELSE "batch",
                       batch |-> batch, rules |-> Len(processes),
                       trace |-> f.trace]
       /\ errTicks' = IF err THEN errTicks + 1 ELSE errTicks
       /\ Commit(f)
  /\ UNCHANGED << fetchCalls, records, lastCompletion, thrown >>
  /\ UNCHANGED << svcVars, queueVars >>

(* The callback given to receiveMessage, lines 385-400: err, or data with  *)
(* Messages = batch (no Messages when the batch is empty).                 *)
ReceiveCallback(err, batch) ==
  /\ fetchPending > 0
  /\ fetchPending' = fetchPending - 1
  /\ IF err
     THEN /\ lastTick' = [kind |-> "err", batch |-> <<>>,
                          rules |-> Len(processes), trace |-> <<>>]
          /\ errTicks' = errTicks + 1
          /\ Commit(Fx)
     ELSE LET f == MessageLoop(Fx, batch, 1) IN
          /\ lastTick' = [kind |-> IF batch = <<>> THEN "empty" ELSE "batch",
                          batch |-> batch, rules |-> Len(processes),
                          trace |-> f.trace]
          /\ errTicks' = errTicks
          /\ Commit(f)
  /\ UNCHANGED << fetchCalls, records, lastCompletion, thrown >>
  /\ UNCHANGED << svcVars, queueVars >>

(* An async callback calls the completion function it holds: nothing   *)
(* keeps it from calling it again later.                                   *)
Complete(m, err) ==
  /\ inflight[m] > 0
  /\ LET f == Completion(Fx, err, m) IN
       Commit(f) /\ lastCompletion' = f.trace
  /\ UNCHANGED << records, thrown >>
  /\ UNCHANGED << svcVars, queueVars, tickVars >>

(***************************************************************************)
(* The collaborators.                                                      *)
(***************************************************************************)
(* The promise of one Record.create settles: the row is written, or not.  *)
WriteSettle(m, status, ok) ==
  /\ pendingWrites[m][status] > 0
  /\ pendingWrites' = [pendingWrites EXCEPT ![m][status] = @ - 1]
  /\ records' = IF ok THEN [records EXCEPT ![m][status] = @ + 1] ELSE records
  /\ UNCHANGED << envelope, dispatched, schemaEvals, handlerCalls, doneCalls,
                  hookCalls, creates, deleteCalls, pendingDeletes, inflight,
                  lastCompletion, thrown >>
  /\ UNCHANGED << svcVars, queueVars, tickVars >>

(* The transport answers one deleteMessage: the message is gone, or an    *)
(* error is logged.                                                        *)
DeleteSettle(m, ok) ==
  /\ pendingDeletes[m] > 0
  /\ pendingDeletes' = [pendingDeletes EXCEPT ![m] = @ - 1]
  /\ queue' = IF ok THEN queue \ {m} ELSE queue
  /\ UNCHANGED << msgBody, thrown >>
  /\ UNCHANGED << envelope, dispatched, schemaEvals, handlerCalls, doneCalls,
                  hookCalls, creates, pendingWrites, records, deleteCalls,
                  inflight, lastCompletion >>
  /\ UNCHANGED << svcVars, tickVars >>

(* A producer sends the next message to the queue. *)
SendMessage(m, body) ==
  /\ msgBody[m] = Unsent
  /\ \A k \in Msgs : k < m => msgBody[k] # Unsent
  /\ msgBody' = [msgBody EXCEPT ![m] = body]
  /\ queue' = queue \cup {m}
  /\ UNCHANGED << thrown >>
  /\ UNCHANGED << svcVars, tickVars, fxVars >>

(***************************************************************************)
(* Specifications.  The program bounds nothing: a scenario bounds what the *)
(* embedding application and the collaborators do (how many messages are   *)
(* sent, rules registered, ticks fired and completions made, and with      *)
(* which use cases, bodies, validations, callbacks and hooks), so that TLC *)
(* explores every behaviour within it.                                     *)
(***************************************************************************)
Scenario(msgs, rules, fetches, dones, useCases, bodies, validations, callbacks, hooks, hooked) ==
  [ msgs |-> msgs, rules |-> rules, fetches |-> fetches, dones |-> dones,
    useCases |-> useCases,
    bodies |-> bodies, validations |-> validations, callbacks |-> callbacks,
    hooks |-> hooks, hooked |-> hooked ]

(* What the service does by itself, and what its collaborators answer. *)
Service(sc) ==
  \/ \E n \in 1..MaxStarts, o \in {"ok", "err", "hang"} : SetupStep(n, o)
  \/ \E t \in 1..MaxStarts : fetchCalls < sc.fetches /\ Tick(t)
  \/ \E err \in BOOLEAN, b \in Batches(queue) \cup {<<>>} : ReceiveCallback(err, b)
  \/ \E m \in Msgs, err \in BOOLEAN : doneCalls[m] < sc.dones /\ Complete(m, err)
  \/ \E m \in Msgs, s \in {"success", "error"}, ok \in BOOLEAN : WriteSettle(m, s, ok)
  \/ \E m \in Msgs, ok \in BOOLEAN : DeleteSettle(m, ok)

(* The embedding application calls the public methods in any order, and a *)
(* producer sends messages at any time.                                    *)
Calls(sc) ==
  \/ \E field \in Identity : SetMeta(field)
  \/ \E u \in sc.useCases, v \in sc.validations, c \in sc.callbacks :
       Len(processes) < sc.rules /\ Process(u, v, c)
  \/ \E h \in sc.hooks : Done(h)
  \/ \E h \in sc.hooks : Error(h)
  \/ Start
  \/ Stop
  \/ \E m \in 1..sc.msgs, b \in sc.bodies : SendMessage(m, b)

(* The test '#start' drives the service by one builder chain: name,        *)
(* description, version, process, done, error, start.  Here the            *)
(* application makes its calls in that order only, and the messages were   *)
(* sent before.  It may leave out process, and, unless the scenario is     *)
(* hooked, done or error.                                                  *)
NextField ==
  IF "name" \notin meta THEN "name"
  ELSE IF "description" \notin meta THEN "description"
  ELSE "version"

NoHooks == registeredDone = "null" /\ registeredError = "null"

Chain(sc) ==
  \/ \E m \in 1..sc.msgs, b \in sc.bodies : meta = {} /\ SendMessage(m, b)
  \/ SetMeta(NextField)
  \/ \E u \in sc.useCases, v \in sc.validations, c \in sc.callbacks :
       /\ Identity \subseteq meta /\ NoHooks /\ Starts = 0
       /\ Len(processes) < sc.rules
       /\ Process(u, v, c)
  \/ \E h \in sc.hooks : Identity \subseteq meta /\ NoHooks /\ Starts = 0 /\ Done(h)
  \/ \E h \in sc.hooks :
       Identity \subseteq meta /\ registeredError = "null" /\ Starts = 0 /\ Error(h)
  \/ /\ Identity \subseteq meta /\ Starts = 0
     /\ sc.hooked => (registeredDone # "null" /\ registeredError # "null")
     /\ Start

(***************************************************************************)
(* Spec: one message, one rule, any order of the public calls.             *)
(***************************************************************************)
LifeMsgs == 1
LifeRules == 1
LifeFetches == 2
LifeDones == 1

Life ==
  Scenario(LifeMsgs, LifeRules, LifeFetches, LifeDones, {"case1"},
           {Str("{\"Name\":\"Stephen\"}")},
           {Schema(<< <<"Name", "String">> >>)}, {"async"}, {"fn"}, FALSE)

Next == Calls(Life) \/ Service(Life)

Spec == Init /\ [][Next]_vars

(***************************************************************************)
(* SpecRoute: one message of any body against every registry of up to two  *)
(* rules, over two ticks.                                                  *)
(***************************************************************************)
RouteMsgs == 1
RouteRules == 2
RouteFetches == 2
RouteDones == 1

Route ==
  Scenario(RouteMsgs, RouteRules, RouteFetches, RouteDones, {"case1", "undefined"},
           Bodies, Validations, {"syncOk", "async", "notFunction"}, {"fn"},
           FALSE)

NextRoute == Chain(Route) \/ Service(Route)

SpecRoute == Init /\ [][NextRoute]_vars

(***************************************************************************)
(* SpecComplete: one message, one rule, every callback and every hook,     *)
(* and completion functions called up to twice.                            *)
(***************************************************************************)
CompleteMsgs == 1
CompleteRules == 1
CompleteFetches == 1
CompleteDones == 2

Completing ==
  Scenario(CompleteMsgs, CompleteRules, CompleteFetches, CompleteDones, {"case1"},
           Bodies, {Schema(<<>>), Schema(<< <<"Name", "String">> >>)},
           Callbacks, Hooks, FALSE)

NextComplete == Chain(Completing) \/ Service(Completing)

SpecComplete == Init /\ [][NextComplete]_vars

(***************************************************************************)
(* SpecBatch: two messages fetched in one batch of one tick, with both     *)
(* hooks registered and callbacks that do not throw.                       *)
(***************************************************************************)
BatchMsgs == 2
BatchRules == 1
BatchFetches == 1
BatchDones == 1

Batch ==
  Scenario(BatchMsgs, BatchRules, BatchFetches, BatchDones, {"case1"},
           { Str("{\"Name\":\"Stephen\"}"), Str("{\"Age\":5}"),
             Str("{\"Name\":null}"), Str("not json") },
           { Schema(<< <<"Name", "String">> >>), Schema(<< <<"Name", "Array">> >>) },
           {"syncOk", "syncErr", "async"}, {"fn"}, TRUE)

NextBatch == Chain(Batch) \/ Service(Batch)

SpecBatch == Init /\ [][NextBatch]_vars

(***************************************************************************)
(* SpecMatch: one message and one rule, the body any object of up to two   *)
(* fields (or a body that decodes to no object), the validation any        *)
(* mapping of up to two fields, in either for..in order.                   *)
(***************************************************************************)
MatchMsgs == 1
MatchRules == 1
MatchFetches == 1
MatchDones == 1
MatchProps == 2

MatchFields == {"Name", "Age"}

MatchKinds == {"string", "datestring", "number", "null", "array", "date"}

MatchCtors == {"String", "Number", "Array", "Date", "Function"}

MatchBodies ==
  { Obj(o) : o \in { s \in SUBSET (MatchFields \X MatchKinds) :
                       \A p, q \in s : p[1] = q[1] => p = q } }

MatchSchemas ==
  { Schema(ps) :
      ps \in { q \in UNION { [1..n -> MatchFields \X MatchCtors] : n \in 0..MatchProps } :
                 \A i, j \in DOMAIN q : i # j => q[i][1] # q[j][1] } }

Match ==
  Scenario(MatchMsgs, MatchRules, MatchFetches, MatchDones, {"case1"},
           MatchBodies \cup {Str("5"), Str("null"), Str("not json")},
           MatchSchemas, {"async"}, {"fn"}, TRUE)

NextMatch == Chain(Match) \/ Service(Match)

SpecMatch == Init /\ [][NextMatch]_vars

(***************************************************************************)
(* SpecRegister: up to two rules registered with every use case, every     *)
(* validation and every callback argument, then one message polled once.   *)
(***************************************************************************)
RegisterMsgs == 1
RegisterRules == 2
RegisterFetches == 1
RegisterDones == 1

Register ==
  Scenario(RegisterMsgs, RegisterRules, RegisterFetches, RegisterDones, UseCases,
           {Str("{\"Name\":\"Stephen\"}")}, Validations,
           {"syncOk", "async", "notFunction"}, {"fn"}, FALSE)

NextRegister == Chain(Register) \/ Service(Register)

SpecRegister == Init /\ [][NextRegister]_vars

(***************************************************************************)
(* SpecHooks: two messages fetched in one batch, one rule looking for a    *)
(* Name of text, callbacks that complete with or without an error, up to   *)
(* twice, and registered hooks that return or throw.  No body holds a null *)
(* field and no schema an unsupported kind.                                *)
(***************************************************************************)
HooksMsgs == 2
HooksRules == 1
HooksFetches == 1
HooksDones == 2

Hooked ==
  Scenario(HooksMsgs, HooksRules, HooksFetches, HooksDones, {"case1"},
           { Str("{\"Name\":\"Stephen\"}"), Str("{\"Age\":5}"), Str("not json") },
           { Schema(<< <<"Name", "String">> >>) },
           {"syncOk", "syncErr", "async"}, Hooks, TRUE)

NextHooks == Chain(Hooked) \/ Service(Hooked)

SpecHooks == Init /\ [][NextHooks]_vars

(***************************************************************************)
(* SpecStop: the builder chain with both hooks registered, returning or    *)
(* throwing, two messages given to a callback that completes later, and    *)
(* stop() called at any time.                                              *)
(***************************************************************************)
StopMsgs == 2
StopRules == 1
StopFetches == 1
StopDones == 1

Stopping ==
  Scenario(StopMsgs, StopRules, StopFetches, StopDones, {"case1"},
           { Str("{\"Name\":\"Stephen\"}") }, { Schema(<< <<"Name", "String">> >>) },
           {"async"}, Hooks, TRUE)

NextStop == Chain(Stopping) \/ Stop \/ Service(Stopping)

SpecStop == Init /\ [][NextStop]_vars

(***************************************************************************)
(* What the claims speak of.                                               *)
(***************************************************************************)
(* A declared kind against the kind of a value, as the design states it:   *)
(* text, list, generic object, numeric, boolean and date.  A string that   *)
(* can be parsed as a date counts as text here, not as a date.  No value   *)
(* is of an unsupported kind.                                              *)
OfKind(kind, ctor) ==
  CASE ctor = "String"  -> kind \in {"string", "datestring"}
    [] ctor = "Array"   -> kind = "array"
    [] ctor = "Object"  -> kind = "object"
    [] ctor = "Number"  -> kind = "number"
    [] ctor = "Boolean" -> kind = "boolean"
    [] ctor = "Date"    -> kind = "date"
    [] OTHER            -> FALSE

(* The decoded body satisfies the schema: every declared field is present  *)
(* in it with a value of the declared kind.                                *)
Satisfies(decoded, validation) ==
  \A i \in DOMAIN validation.props :
    \E p \in decoded.own :
      p[1] = validation.props[i][1] /\ OfKind(p[2], validation.props[i][2])

Sent(m) == msgBody[m] # Unsent

Decodes(m) == Sent(m) /\ Decode(msgBody[m]) # SyntaxError

(* The first of the first n rules that the decoded body of m satisfies, or 0. *)
FirstSatisfied(m, n) ==
  LET ok == {i \in 1..n : Satisfies(Decode(msgBody[m]), processes[i].validation)}
  IN IF ok = {} THEN 0 ELSE CHOOSE i \in ok : \A k \in ok : i <= k

(* The events e of a trace, and the messages or rules they are about. *)
Events(t, e) == SelectSeq(t, LAMBDA x : x.e = e)

MsgsOf(t) == [k \in DOMAIN t |-> t[k].m]

HandlersOf(t, m) ==
  LET h == SelectSeq(t, LAMBDA x : x.e = "handler" /\ x.m = m)
  IN [k \in DOMAIN h |-> h[k].i]

Traces == {lastTick.trace, lastCompletion}

None(m) ==
  /\ handlerCalls[m] = 0
  /\ hookCalls[m] = ByHook(0, 0)
  /\ creates[m] = ByStatus(0, 0)
  /\ records[m] = ByStatus(0, 0)
  /\ deleteCalls[m] = 0

(* C1: every message of a batch whose dispatch began and whose body        *)
(* decodes had the callback of the first rule its decoded body satisfies   *)
(* called, and of no other rule; none was called when it satisfies none.   *)
C1_FirstMatchDispatch ==
  lastTick.kind = "batch" =>
    \A j \in DOMAIN lastTick.batch :
      LET m == lastTick.batch[j]
          first == FirstSatisfied(m, lastTick.rules)
      IN (Decodes(m) /\ \E k \in DOMAIN lastTick.trace :
                          lastTick.trace[k] = Ev("dispatch", m, 0))
         => HandlersOf(lastTick.trace, m) =
              IF first = 0 THEN <<>> ELSE << first >>

(* C2: a message whose decoded body satisfies the schema of no registered  *)
(* rule has had no callback and no hook called, no audit record created or *)
(* written and no delete issued, and it is still in the queue.             *)
C2_UnmatchedUntouched ==
  \A m \in Msgs :
    (Decodes(m) /\ FirstSatisfied(m, Len(processes)) = 0)
      => None(m) /\ inflight[m] = 0 /\ m \in queue

(* C2, its case: a message that satisfies no rule of a registry that is    *)
(* not empty was dispatched in two ticks.                                  *)
C2_Witness ==
  \E m \in Msgs :
    /\ Decodes(m) /\ Decode(msgBody[m]).t = "object"
    /\ processes # <<>>
    /\ FirstSatisfied(m, Len(processes)) = 0
    /\ dispatched[m] >= 2
    /\ schemaEvals[m] >= 2

(* C3: a message whose body does not decode, or decodes to what is no      *)
(* object, has reached no rule's schema loop, and has had no callback      *)
(* called, no audit record created and no delete issued.                   *)
C3_MalformedNeverEvaluated ==
  \A m \in Msgs :
    (Sent(m) /\ Decode(msgBody[m]).t # "object")
      => schemaEvals[m] = 0 /\ None(m)

(* C4: where a completion function was called with no error, for a message *)
(* whose completion function was called once, the run went on with the     *)
(* done hook, the creation of the success record and the delete, in this   *)
(* order, each once, and no delete is issued before the record is written. *)
C4_SuccessOnce ==
  \A t \in Traces : \A k \in DOMAIN t :
    LET m == t[k].m IN
    (t[k].e = "completeOk" /\ doneCalls[m] = 1) =>
      /\ Len(t) >= k + 3
      /\ t[k + 1] = Ev("doneHook", m, 0)
      /\ t[k + 2] = Ev("createSuccess", m, 0)
      /\ t[k + 3] = Ev("delete", m, 0)
      /\ hookCalls[m] = ByHook(1, 0)
      /\ creates[m] = ByStatus(1, 0)
      /\ deleteCalls[m] = 1
      /\ pendingWrites[m] = ByStatus(0, 0)
      /\ records[m] = ByStatus(1, 0)

(* C5: where a completion function was called with an error, for a message *)
(* whose completion function was called once, the run went on with the     *)
(* error hook, the creation of the error record and the delete; the done   *)
(* hook was not called.                                                    *)
C5_ErrorOnce ==
  \A t \in Traces : \A k \in DOMAIN t :
    LET m == t[k].m IN
    (t[k].e = "completeErr" /\ doneCalls[m] = 1) =>
      /\ Len(t) >= k + 3
      /\ t[k + 1] = Ev("errorHook", m, 0)
      /\ t[k + 2] = Ev("createError", m, 0)
      /\ t[k + 3] = Ev("delete", m, 0)
      /\ hookCalls[m] = ByHook(0, 1)
      /\ creates[m] = ByStatus(0, 1)
      /\ deleteCalls[m] = 1

(* C6: every call of a completion function has issued a delete of its      *)
(* message, whatever the hook and the audit store did.                     *)
C6_DeleteUnconditional ==
  \A m \in Msgs : deleteCalls[m] = doneCalls[m]

(* C7: from the return of stop() on, as long as start() is not called      *)
(* again, no step calls receiveMessage.                                    *)
C7_NoFetchAfterStop == [][stopped => fetchCalls' = fetchCalls]_vars

(* C8: once stop() has cancelled the polling of an instance with no        *)
(* start-up under way, no step calls receiveMessage, whatever is called.   *)
C8_NoResume == [][stoppedIdle => fetchCalls' = fetchCalls]_vars

(* C9: the step that takes a receiveMessage answer that is an error, or    *)
(* holds no messages, dispatches nothing, calls no callback and no hook,   *)
(* creates no record, issues no delete, and leaves the timers as they are. *)
C9_FetchErrorIsNoOp ==
  [][(fetchPending' < fetchPending /\ lastTick'.kind \in {"err", "empty"})
       => /\ lastTick'.trace = <<>>
          /\ UNCHANGED << envelope, dispatched, schemaEvals, handlerCalls,
                          doneCalls, hookCalls, creates, pendingWrites,
                          records, deleteCalls, pendingDeletes, inflight,
                          queue, timers, interval >>]_vars

(* C9, its case: after an error answer, the answer of a later tick was     *)
(* dispatched and a callback called, with the timer still active.          *)
C9_Witness ==
  /\ errTicks >= 1
  /\ lastTick.kind = "batch"
  /\ Events(lastTick.trace, "handler") # <<>>
  /\ timers # {}

(* C10: the dispatches begun by the callback of a batch are those of its   *)
(* messages, each once, in the order of the batch.                         *)
C10_BatchInOrder ==
  lastTick.kind = "batch" =>
    MsgsOf(Events(lastTick.trace, "dispatch")) = lastTick.batch


(* The values the body has for the fields the validation declares. *)
Declared(body, validation) ==
  { p \in body.own : \E k \in DOMAIN validation.props : validation.props[k][1] = p[1] }

SupportedKinds == {"String", "Array", "Object", "Number", "Boolean", "Date"}

Unsupported(validation) ==
  \E k \in DOMAIN validation.props : validation.props[k][2] \notin SupportedKinds

(* C12: no rule of the registry declares a field of an unsupported kind    *)
(* (its registration would have failed and appended nothing), so that no   *)
(* dispatch meets one.                                                     *)
C12_UnsupportedKindRejected ==
  \A i \in DOMAIN processes : ~Unsupported(processes[i].validation)


(* C13: every rule of the registry was registered with a use case that is  *)
(* a non-empty string, a validation that is an object mapping and a        *)
(* callback that is callable (any other call of process has raised a       *)
(* configuration error and appended nothing).                              *)
C13_ProcessValidatesArguments ==
  \A i \in DOMAIN processes :
    /\ processes[i].useCase \notin {"", "undefined"}
    /\ processes[i].validation.t = "object"
    /\ processes[i].logic # "notFunction"


(* C14: a call of start() while name, description or version is missing    *)
(* throws to its caller, begins no setup, creates no queue and no timer    *)
(* and issues no fetch; and while one of them is missing no setup has      *)
(* begun, no timer is active and no fetch was issued.                      *)
C14_StartNeedsIdentity ==
  /\ [](~(Identity \subseteq meta)
          => /\ \A n \in 1..MaxStarts : setups[n] = "idle"
             /\ timers = {} /\ interval = 0 /\ ~QueueUrl /\ fetchCalls = 0)
  /\ [][(Start /\ ~(Identity \subseteq meta))
          => /\ thrown' = "identity"
             /\ UNCHANGED << setups, timers, interval, QueueUrl, Record,
                             fetchCalls, fetchPending >>]_vars

(* C14, its case: start() has thrown for the missing identity while a      *)
(* message waits in the queue and a rule is registered.                    *)
C14_Witness ==
  /\ thrown = "identity"
  /\ ~(Identity \subseteq meta)
  /\ queue # {} /\ processes # <<>>
  /\ configLoaded


(* C15: the step that takes a receiveMessage answer with messages leaves   *)
(* the timers as they are and begins the dispatch of every message of the  *)
(* batch, whatever a decode, a rule, a callback or a hook did to an        *)
(* earlier message of it.                                                  *)
C15_SchedulerNeverHalts ==
  [][(fetchPending' < fetchPending /\ lastTick'.kind = "batch")
       => /\ timers' = timers /\ interval' = interval
          /\ \A j \in DOMAIN lastTick'.batch :
               \E k \in DOMAIN lastTick'.trace :
                 lastTick'.trace[k] = Ev("dispatch", lastTick'.batch[j], 0)]_vars


(* The run of the completion function at t[k] ended on its call of a hook  *)
(* that is no function.                                                    *)
HookMissing(t, k) == k < Len(t) /\ t[k + 1].e = "throw"

(* C16: start() has thrown nothing, whether hooks are registered or not;   *)
(* and a run of a completion function has ended on a missing hook exactly  *)
(* when the hook it needs (done without an error, error with one) is not   *)
(* registered.                                                             *)
C16_MissingHookAtFirstUse ==
  /\ Starts > 0 => thrown = "none"
  /\ \A t \in Traces : \A k \in DOMAIN t :
       /\ t[k].e = "completeOk" => (HookMissing(t, k) <=> registeredDone = "null")
       /\ t[k].e = "completeErr" => (HookMissing(t, k) <=> registeredError = "null")

(* C16, its case: a rule was registered and the service started with only  *)
(* the error hook registered; a completion with an error has called that   *)
(* hook, and a later completion without one ended on the missing done hook. *)
C16_Witness ==
  \E m \in Msgs :
    /\ processes # <<>> /\ Starts > 0
    /\ registeredDone = "null" /\ registeredError = "fn"
    /\ hookCalls[m] = ByHook(0, 1)
    /\ doneCalls[m] = 2
    /\ lastCompletion = << Ev("completeOk", m, 0), Ev("throw", m, 0) >>


(* C17: every active timer belongs to a start() whose setup has finished   *)
(* without an error; whenever a timer is active, a fetch was issued or a   *)
(* completion function has run, the queue URL and the Record model are     *)
(* set; while no setup has finished no fetch was issued; and a setup whose *)
(* Record sync or queue creation reports an error ends with the error      *)
(* logged, creating no timer and issuing no fetch.                         *)
C17_TimerOnlyAfterSetup ==
  /\ [](/\ timers \subseteq {n \in 1..MaxStarts : setups[n] = "finished"}
        /\ (timers # {} \/ fetchCalls > 0 \/ \E m \in Msgs : doneCalls[m] > 0)
             => (QueueUrl /\ Record)
        /\ (\A n \in 1..MaxStarts : setups[n] # "finished") => fetchCalls = 0)
  /\ [][\A n \in 1..MaxStarts :
          (setups[n] \in {"record", "queue"} /\ setups'[n] \notin {"queue", "finished"}
             /\ setups'[n] # setups[n])
            => /\ setups'[n] = "failed"
               /\ UNCHANGED << timers, interval, QueueUrl, fetchCalls >>]_vars

(* C17, its case: the setup of one start() failed, that of a second one    *)
(* finished, and a message fetched by its timer was completed.             *)
C17_Witness ==
  /\ setups[1] = "failed" /\ setups[2] = "finished"
  /\ timers = {2}
  /\ fetchCalls > 0
  /\ \E m \in Msgs : doneCalls[m] = 1 /\ deleteCalls[m] = 1


(* C18: after the dispatch of a message whose decoded body satisfies no    *)
(* rule, the message object still holds the Body it was delivered with,    *)
(* the message is still in the queue and no audit record was created.      *)
C18_NoMatchNoSideEffect ==
  \A m \in Msgs :
    (Decodes(m) /\ dispatched[m] > 0 /\ FirstSatisfied(m, Len(processes)) = 0)
      => /\ envelope[m] = msgBody[m]
         /\ m \in queue
         /\ creates[m] = ByStatus(0, 0) /\ records[m] = ByStatus(0, 0)


(* C19: for every message, with both hooks registered, the calls of the    *)
(* hooks, the audit records created and the deletes issued are each as     *)
(* many as the calls of its completion function: k of each for k calls,    *)
(* none for none.                                                          *)
C19_RepeatedCompletionUnguarded ==
  \A m \in Msgs :
    (registeredDone # "null" /\ registeredError # "null") =>
      /\ hookCalls[m].done + hookCalls[m].error = doneCalls[m]
      /\ creates[m].success + creates[m].error = doneCalls[m]
      /\ deleteCalls[m] = doneCalls[m]


(* C20: a completion function called after stop() has cancelled the timer  *)
(* calls its hook, creates its audit record and issues its delete, as one  *)
(* called before stop() does.                                              *)
C20_StopLeavesInflight ==
  [][\A m \in Msgs :
       (stopped /\ timers = {} /\ doneCalls'[m] = doneCalls[m] + 1)
         => /\ hookCalls'[m].done + hookCalls'[m].error
                 = hookCalls[m].done + hookCalls[m].error + 1
            /\ creates'[m].success + creates'[m].error
                 = creates[m].success + creates[m].error + 1
            /\ deleteCalls'[m] = deleteCalls[m] + 1]_vars


(* C21: a call of process that returns normally appends the rule of its    *)
(* arguments at the end of the registry, whether its use case is already   *)
(* registered or not; and every step that changes the registry appends     *)
(* one rule to it and leaves the earlier rules as they were.               *)
C21_RegistryAppend ==
  [][/\ \A u \in UseCases, v \in Validations, c \in Callbacks :
          (Process(u, v, c) /\ thrown' = "none")
            => processes' = Append(processes,
                                   [useCase |-> u, validation |-> v, logic |-> c])
     /\ processes' # processes
          => /\ Len(processes') = Len(processes) + 1
             /\ SubSeq(processes', 1, Len(processes)) = processes
             /\ thrown' = "none"]_vars

(* C21, its case: the same use case was registered twice, with different   *)
(* validations, and both rules are in the registry in the order of the     *)
(* calls.                                                                  *)
C21_Witness ==
  /\ Len(processes) = RegisterRules
  /\ processes[1].useCase = "case1" /\ processes[2].useCase = "case1"
  /\ processes[1].validation = Schema(<< <<"Name", "String">> >>)
  /\ processes[2].validation = Schema(<< <<"Age", "Number">> >>)


(* C22: while a polling timer is active no step changes the registry.      *)
C22_RegistryFrozenWhenRunning ==
  [][timers # {} => processes' = processes]_vars


(* The schema declares date fields only, at least one, and the decoded     *)
(* body holds for each of them a value that can be parsed as a date.       *)
DatesParseable(decoded, validation) ==
  /\ validation.t = "object" /\ validation.props # <<>>
  /\ \A k \in DOMAIN validation.props :
       /\ validation.props[k][2] = "Date"
       /\ \E p \in decoded.own :
            p[1] = validation.props[k][1] /\ p[2] \in {"datestring", "date"}

(* C23: a dispatched message whose decoded body holds a value parseable as *)
(* a date for the field the first rule declares as a date has had that     *)
(* rule's callback called.                                                 *)
C23_DateKindParseable ==
  \A m \in Msgs :
    (Decodes(m) /\ dispatched[m] > 0 /\ lastTick.rules > 0
       /\ DatesParseable(Decode(msgBody[m]), processes[1].validation))
      => handlerCalls[m] > 0


(* C24: for every message, the audit records created, the audit records    *)
(* written and the deletes issued are each at most the calls of its        *)
(* completion function, and there are none of them for a message no        *)
(* callback was called for.                                                *)
C24_EffectsBoundedByCompletions ==
  \A m \in Msgs :
    /\ creates[m].success + creates[m].error <= doneCalls[m]
    /\ records[m].success + records[m].error <= creates[m].success + creates[m].error
    /\ deleteCalls[m] <= doneCalls[m]
    /\ doneCalls[m] > 0 => handlerCalls[m] > 0
    /\ handlerCalls[m] = 0
         => /\ creates[m] = ByStatus(0, 0) /\ records[m] = ByStatus(0, 0)
            /\ deleteCalls[m] = 0

(* C24, its case: the completion function of a message was called twice;   *)
(* two records were created, of which one was written, and two deletes     *)
(* were issued.                                                            *)
C24_Witness ==
  \E m \in Msgs :
    /\ doneCalls[m] = CompleteDones
    /\ creates[m].success + creates[m].error = 2
    /\ pendingWrites[m] = ByStatus(0, 0)
    /\ records[m].success + records[m].error = 1
    /\ deleteCalls[m] = 2


(* C25: at most one timer is active, and the timer that is active is the   *)
(* one self.interval holds, so that stop() leaves no timer active.         *)
C25_AtMostOneTimer ==
  /\ Cardinality(timers) <= 1
  /\ timers \subseteq {interval}

=============================================================================
